---- MODULE Spec2Model ----
(***************************************************************************)
(* The jutsu detector.  Sequence matcher (jutsu-detector.js): the state of *)
(* the JutsuDetector closure, processSign, resetSequence, the deferred     *)
(* no-match check scheduled with setTimeout, and the frame loop of app.js  *)
(* that feeds it.  Hand sign classifier (hand-signs.js): getHandFeatures,  *)
(* the twelve sign rules and classify, with scores computed as doubles.    *)
(* Times are milliseconds; confidences handed to the matcher, curls and    *)
(* thresholds are hundredths.                                              *)
(***************************************************************************)
EXTENDS Integers, Sequences, FiniteSets, TLC

NULL == "null"

\* ---- bounds of the model ------------------------------------------------
MaxHold == 9            \* signHoldCount is followed up to this value
MaxTimers == 1          \* deferred no-match checks pending at once
MaxPoints == 21         \* landmark sets have up to this many points
MaxCalls == 3           \* calls of classify followed in one session
MaxTriggers == 2        \* calls of Effects.trigger followed

\* ---- configuration of the detector ---------------------------------------
SEQUENCE_TIMEOUT_MS == 5000
SIGN_HOLD_FRAMES == 8
MIN_CONFIDENCE == 50
NO_MATCH_DELAY_MS == 1000

\* ---- configuration of the classifier (hundredths) ---------------------------
LANDMARK_COUNT == 21
minConfidence == 45

\* the 12 signs of the classifier, in the order of signRules
SignOrder ==
  << "Tiger", "Snake", "Ram", "Monkey", "Boar", "Horse",
     "Bird", "Dog", "Dragon", "Ox", "Hare", "Rat" >>

Signs == { SignOrder[i] : i \in 1..Len(SignOrder) }

\* a catalog in which chidori is the beginning of waterdragon
jutsus_prefixed ==
  << [id |-> "fireball",    signs |-> << "Snake", "Ram", "Monkey", "Boar", "Horse", "Tiger" >>],
     [id |-> "chidori",     signs |-> << "Ox", "Monkey", "Hare" >>],
     [id |-> "shadowclone", signs |-> << "Ram", "Snake", "Tiger" >>],
     [id |-> "waterdragon", signs |-> << "Ox", "Monkey", "Hare", "Rat", "Boar", "Bird" >>] >>

jutsus ==
  << [id |-> "fireball",    signs |-> << "Snake", "Ram", "Monkey", "Boar", "Horse", "Tiger" >>],
     [id |-> "chidori",     signs |-> << "Ox", "Hare", "Monkey" >>],
     [id |-> "shadowclone", signs |-> << "Ram", "Snake", "Tiger" >>],
     [id |-> "waterdragon", signs |-> << "Ox", "Monkey", "Hare", "Rat", "Boar", "Bird" >>] >>

JutsuIds == { jutsus[i].id : i \in 1..Len(jutsus) }

JutsuById(id) == CHOOSE i \in 1..Len(jutsus) : jutsus[i].id = id

\* ---- inputs ---------------------------------------------------------------
\* what classify hands to processSign: sign null with confidence 0, or a sign
\* with a confidence of at least the classifier floor 0.45; 0.49 is below the
\* matcher's MIN_CONFIDENCE, 0.50 is not
Confidences == {49, 50}

Classifications ==
  { [sign |-> NULL, confidence |-> 0] }
     \cup { [sign |-> s, confidence |-> c] : s \in Signs, c \in Confidences }

\* the instants at which callbacks run.  A sign registered at 0 is exactly
\* SEQUENCE_TIMEOUT_MS old at 5000 and older at 10001; one registered at 5000 is
\* 1 ms too old at 10001; a deferred check scheduled at 0 or 5000 is due by the
\* next instant, one scheduled at 10001 stays pending
Instants == {0, 5000, 10001}

Range(f) == { f[i] : i \in DOMAIN f }

\* in one behaviour the hand takes, in any order, the signs of one of the two
\* six-sign jutsus; each three-sign jutsu is spelled with signs of one of them
Alphabets ==
  { Range(jutsus[i].signs) : i \in { k \in 1..Len(jutsus) : Len(jutsus[k].signs) = 6 } }

\* the sign sets of the two three-sign jutsus: behaviours over one of them are
\* few enough to follow one more pending deferred check
ShortAlphabets ==
  { Range(jutsus[i].signs) : i \in { k \in 1..Len(jutsus) : Len(jutsus[k].signs) = 3 } }

TimerCap(shown) == IF shown \in ShortAlphabets THEN MaxTimers + 1 ELSE MaxTimers

\* ---- events ---------------------------------------------------------------
UpdateEvent(seq, matching) ==
  [type |-> "update", reason |-> NULL, id |-> NULL, seq |-> seq, matching |-> matching]

CompleteEvent(id) ==
  [type |-> "complete", reason |-> NULL, id |-> id, seq |-> <<>>, matching |-> <<>>]

ResetEvent(reason) ==
  [type |-> "reset", reason |-> reason, id |-> NULL, seq |-> <<>>, matching |-> <<>>]

\* ---- pure helpers of the detector -------------------------------------------
\* the filter predicate of findMatchingJutsus
IsPrefixOf(seq, signs) ==
  /\ Len(seq) <= Len(signs)
  /\ \A i \in 1..Len(seq) : seq[i] = signs[i]

MatchEntry(jutsu, seq) ==
  [id |-> jutsu.id, progress |-> Len(seq), total |-> Len(jutsu.signs),
   percentage |-> [num |-> Len(seq) * 100, den |-> Len(jutsu.signs)]]

findMatchingJutsus_first(seq) ==
  LET sel == SelectSeq(jutsus, LAMBDA j : IsPrefixOf(seq, j.signs))
  IN  [i \in 1..(IF Len(sel) > 0 THEN 1 ELSE 0) |-> MatchEntry(sel[i], seq)]

\* lines 146-159
findMatchingJutsus(seq) ==
  LET sel == SelectSeq(jutsus, LAMBDA j : IsPrefixOf(seq, j.signs))
  IN  [i \in 1..Len(sel) |-> MatchEntry(sel[i], seq)]

IsCompletedBy_lengthOnly(seq, signs) == Len(seq) = Len(signs)

IsCompletedBy_prefix(seq, signs) ==
  /\ Len(seq) <= Len(signs)
  /\ \A i \in 1..Len(seq) : signs[i] = seq[i]

\* the find predicate of findCompletedJutsu
IsCompletedBy(seq, signs) ==
  /\ Len(seq) = Len(signs)
  /\ \A i \in 1..Len(signs) : signs[i] = seq[i]

\* jutsus.find: the first catalog entry that satisfies the predicate, or undefined
findCompletedJutsu(seq) ==
  LET hits == { i \in 1..Len(jutsus) : IsCompletedBy(seq, jutsus[i].signs) }
  IN  IF hits = {} THEN NULL
      ELSE jutsus[CHOOSE i \in hits : \A k \in hits : i <= k].id

\* ---- the matcher as a function of its state ----------------------------------
\* m is the closure state plus what the call in progress has done so far: the
\* events fired, the timers scheduled, and whether line 114 pushed a sign
resetSequence_keepHold(m, reason) ==
  LET hadSigns == Len(m.currentSequence) > 0
  IN  [m EXCEPT !.currentSequence = <<>>,
                !.matchingJutsus = <<>>,
                !.events = IF hadSigns THEN Append(@, ResetEvent(reason)) ELSE @]

\* a reset that notifies whether or not there was anything to discard
resetSequence_alwaysNotifies(m, reason) ==
  [m EXCEPT !.currentSequence = <<>>,
            !.matchingJutsus = <<>>,
            !.lastDetectedSign = NULL,
            !.signHoldCount = 0,
            !.events = Append(@, ResetEvent(reason))]

\* a reset that backs out the last sign only
resetSequence_dropLast(m, reason) ==
  LET hadSigns == Len(m.currentSequence) > 0
  IN  [m EXCEPT !.currentSequence =
                   IF hadSigns THEN SubSeq(@, 1, Len(@) - 1) ELSE @,
                !.matchingJutsus = <<>>,
                !.lastDetectedSign = NULL,
                !.signHoldCount = 0,
                !.events = IF hadSigns THEN Append(@, ResetEvent(reason)) ELSE @]

\* lines 168-177
resetSequence(m, reason) ==
  LET hadSigns == Len(m.currentSequence) > 0
  IN  [m EXCEPT !.currentSequence = <<>>,
                !.matchingJutsus = <<>>,
                !.lastDetectedSign = NULL,
                !.signHoldCount = 0,
                !.events = IF hadSigns THEN Append(@, ResetEvent(reason)) ELSE @]

TimedOut_inclusive(m, now) ==
  Len(m.currentSequence) > 0 /\ now - m.lastSignTime >= SEQUENCE_TIMEOUT_MS

\* line 83: the timeout test
TimedOut(m, now) ==
  Len(m.currentSequence) > 0 /\ now - m.lastSignTime > SEQUENCE_TIMEOUT_MS

\* line 88: the sample is not admitted
Rejected(sign, confidence) ==
  sign = NULL \/ confidence < MIN_CONFIDENCE

ClearHold_keepCount(m) ==
  IF m.lastDetectedSign # NULL THEN [m EXCEPT !.lastDetectedSign = NULL] ELSE m

\* lines 89-93
ClearHold(m) ==
  IF m.lastDetectedSign # NULL
    THEN [m EXCEPT !.signHoldCount = 0, !.lastDetectedSign = NULL]
    ELSE m

\* lines 98-103
HoldStep(m, sign) ==
  IF sign = m.lastDetectedSign
    THEN [m EXCEPT !.signHoldCount = @ + 1]
    ELSE [m EXCEPT !.lastDetectedSign = sign, !.signHoldCount = 1]

HeldLongEnough_early(count) == count = SIGN_HOLD_FRAMES - 1

\* line 106
HeldLongEnough(count) == count = SIGN_HOLD_FRAMES

IsRepeat_never(seq, sign) == FALSE

\* line 109
IsRepeat(seq, sign) ==
  Len(seq) > 0 /\ seq[Len(seq)] = sign

NeedsDeferredCheck_never(m) == FALSE

\* lines 136-142: the deferred check is scheduled
NeedsDeferredCheck(m) ==
  Len(m.matchingJutsus) = 0 /\ Len(m.currentSequence) > 0

Register_silentCompletion(m, sign, now) ==
  LET seq == Append(m.currentSequence, sign)
      matching == findMatchingJutsus(seq)
      m1 == [m EXCEPT !.currentSequence = seq,
                      !.lastSignTime = now,
                      !.matchingJutsus = matching,
                      !.appended = TRUE]
      completedJutsu == findCompletedJutsu(seq)
  IN  IF completedJutsu # NULL
        THEN resetSequence([m1 EXCEPT !.events = Append(@, CompleteEvent(completedJutsu))],
                           "completed")
        ELSE IF NeedsDeferredCheck(m1)
               THEN [m1 EXCEPT !.events = Append(@, UpdateEvent(seq, matching)),
                               !.scheduled = Append(@, now + NO_MATCH_DELAY_MS)]
               ELSE [m1 EXCEPT !.events = Append(@, UpdateEvent(seq, matching))]

\* lines 113-143
Register(m, sign, now) ==
  LET seq == Append(m.currentSequence, sign)
      matching == findMatchingJutsus(seq)
      m1 == [m EXCEPT !.currentSequence = seq,
                      !.lastSignTime = now,
                      !.matchingJutsus = matching,
                      !.appended = TRUE,
                      !.events = Append(@, UpdateEvent(seq, matching))]
      completedJutsu == findCompletedJutsu(seq)
  IN  IF completedJutsu # NULL
        THEN resetSequence([m1 EXCEPT !.events = Append(@, CompleteEvent(completedJutsu))],
                           "completed")
        ELSE IF NeedsDeferredCheck(m1)
               THEN [m1 EXCEPT !.scheduled = Append(@, now + NO_MATCH_DELAY_MS)]
               ELSE m1

\* lines 75-144, for a classification that is not null
processSign(m, classification, now) ==
  LET sign == classification.sign
      confidence == classification.confidence
      m1 == IF TimedOut(m, now) THEN resetSequence(m, "timeout") ELSE m
  IN  IF Rejected(sign, confidence)
        THEN ClearHold(m1)
        ELSE LET m2 == HoldStep(m1, sign)
             IN  IF ~HeldLongEnough(m2.signHoldCount) THEN m2
                 ELSE IF IsRepeat(m2.currentSequence, sign) THEN m2
                 ELSE Register(m2, sign, now)

DeferredCheck_never(m) == m

DeferredCheck_blind(m) == resetSequence(m, "no-match")

\* lines 138-142: the callback handed to setTimeout
DeferredCheck(m) ==
  IF Len(m.matchingJutsus) = 0 THEN resetSequence(m, "no-match") ELSE m

\* ---- JavaScript numbers ------------------------------------------------------
\* hand-signs.js adds and compares scores as IEEE 754 doubles, and the sums of
\* its weights are not the decimal sums (0.3 + 0.15 is below 0.45).  Every
\* score is a multiple of 2^-57 below 2 in magnitude, so a double is kept as a
\* sign and a magnitude hi * Limb + lo counted in units of 2^-57.
Limb == 536870912                    \* 2^29

DoubleZero == [neg |-> FALSE, hi |-> 0, lo |-> 0]

\* the double a decimal literal of the source denotes, by its hundredths
Literal(h) ==
  CASE h = 5   -> [neg |-> FALSE, hi |-> 13421772,  lo |-> 429496730]
    [] h = 10  -> [neg |-> FALSE, hi |-> 26843545,  lo |-> 322122548]
    [] h = 15  -> [neg |-> FALSE, hi |-> 40265318,  lo |-> 214748364]
    [] h = 20  -> [neg |-> FALSE, hi |-> 53687091,  lo |-> 107374184]
    [] h = 25  -> [neg |-> FALSE, hi |-> 67108864,  lo |-> 0]
    [] h = 30  -> [neg |-> FALSE, hi |-> 80530636,  lo |-> 429496728]
    [] h = 35  -> [neg |-> FALSE, hi |-> 93952409,  lo |-> 322122544]
    [] h = 40  -> [neg |-> FALSE, hi |-> 107374182, lo |-> 214748368]
    [] h = 45  -> [neg |-> FALSE, hi |-> 120795955, lo |-> 107374184]
    [] h = 50  -> [neg |-> FALSE, hi |-> 134217728, lo |-> 0]
    [] h = 100 -> [neg |-> FALSE, hi |-> 268435456, lo |-> 0]

MagLess(a, b) == a.hi < b.hi \/ (a.hi = b.hi /\ a.lo < b.lo)

MagAdd(a, b) ==
  [hi |-> a.hi + b.hi + ((a.lo + b.lo) \div Limb), lo |-> (a.lo + b.lo) % Limb]

\* for a not below b
MagSub(a, b) ==
  IF a.lo >= b.lo
    THEN [hi |-> a.hi - b.hi, lo |-> a.lo - b.lo]
    ELSE [hi |-> a.hi - b.hi - 1, lo |-> a.lo - b.lo + Limb]

\* the spacing of the doubles around a magnitude, in units: 1 below 2^53 units
Spacing(hi) ==
  IF hi < 16777216 THEN 1
  ELSE IF hi < 33554432 THEN 2
  ELSE IF hi < 67108864 THEN 4
  ELSE IF hi < 134217728 THEN 8
  ELSE IF hi < 268435456 THEN 16
  ELSE IF hi < 536870912 THEN 32
  ELSE 64

\* round to nearest, ties to even: the result of every double operation
RoundToDouble(m) ==
  LET q == Spacing(m.hi)
      r == m.lo % q
      down == m.lo - r
      up == 2 * r > q \/ (2 * r = q /\ (down \div q) % 2 = 1)
      lo1 == IF up THEN down + q ELSE down
  IN  IF lo1 = Limb THEN [hi |-> m.hi + 1, lo |-> 0] ELSE [hi |-> m.hi, lo |-> lo1]

Signed(neg, m) == [neg |-> neg /\ (m.hi # 0 \/ m.lo # 0), hi |-> m.hi, lo |-> m.lo]

\* a + b
DoubleAdd(a, b) ==
  IF a.neg = b.neg THEN Signed(a.neg, RoundToDouble(MagAdd(a, b)))
  ELSE IF MagLess(a, b) THEN Signed(b.neg, RoundToDouble(MagSub(b, a)))
  ELSE Signed(a.neg, RoundToDouble(MagSub(a, b)))

\* a - b
DoubleSub(a, b) == DoubleAdd(a, [b EXCEPT !.neg = ~b.neg /\ (b.hi # 0 \/ b.lo # 0)])

\* a < b
DoubleLess(a, b) ==
  IF a.neg # b.neg THEN a.neg
  ELSE IF a.neg THEN MagLess(b, a) ELSE MagLess(a, b)

\* Math.max(a, b) and Math.min(a, b)
DoubleMax(a, b) == IF DoubleLess(a, b) THEN b ELSE a

DoubleMin(a, b) == IF DoubleLess(b, a) THEN b ELSE a

\* ---- the hand in front of the camera ------------------------------------------
\* A landmark set is kept as its number of points and, when it has all
\* LANDMARK_COUNT of them, the measurements getHandFeatures takes from the
\* points: the curl of each finger (getFingerCurl and getThumbCurl, lines 55-69,
\* in hundredths), the palm size dist(lm[0], lm[9]) and the fingertip distances
\* in hundredths of a unit palm, and whether both fingertips are above their
\* PIP joints.  The samples lie on each side of every threshold the rules test.
ThumbCurls == {20, 35, 60}
IndexCurls == {20, 50, 70}
MiddleCurls == {20, 35, 70}
RingCurls == {20, 60, 70}
PinkyCurls == {20, 70}
PalmSizes == {0, 100}               \* 0: wrist and middle-finger base coincide
IndexMiddleGaps == {20, 30, 38}
MiddleRingGaps == {10, 30}
RingPinkyGaps == {10, 30}
ThumbPalmGaps == {50, 100}
ThumbIndexGaps == {50, 70}

Hands ==
  [thumbCurl : ThumbCurls, indexCurl : IndexCurls, middleCurl : MiddleCurls,
   ringCurl : RingCurls, pinkyCurl : PinkyCurls, palmSize : PalmSizes,
   tip8to12 : IndexMiddleGaps, tip12to16 : MiddleRingGaps, tip16to20 : RingPinkyGaps,
   tip4to9 : ThumbPalmGaps, tip4to8 : ThumbIndexGaps, indexMiddleUp : BOOLEAN]

\* what classify can be handed: nothing, too few points, or a hand
NoLandmarks == [kind |-> "missing"]

LandmarkSets ==
  {NoLandmarks}
    \cup { [kind |-> "points", length |-> n] : n \in 0..(LANDMARK_COUNT - 1) }
    \cup { [kind |-> "points", length |-> n, hand |-> h] :
             n \in LANDMARK_COUNT..MaxPoints, h \in Hands }

\* a / b of two lengths: a number, Infinity (a > 0 = b) or NaN (a = 0 = b)
Ratio(a, b) == [num |-> a, den |-> b]

\* r < h / 100 and r > h / 100; every comparison with NaN is false
RatioLess(r, h) == r.den > 0 /\ r.num * 100 < h * r.den

RatioGreater(r, h) ==
  IF r.den > 0 THEN r.num * 100 > h * r.den ELSE r.num > 0

\* lines 89-175, the features the sign rules read
getHandFeatures(lm) ==
  LET palmSize == lm.palmSize
      indexExtended == lm.indexCurl < 40
      middleExtended == lm.middleCurl < 40
      ringExtended == lm.ringCurl < 40
      pinkyExtended == lm.pinkyCurl < 40
      indexCurled == lm.indexCurl > 55
      middleCurled == lm.middleCurl > 55
      ringCurled == lm.ringCurl > 55
      pinkyCurled == lm.pinkyCurl > 55
  IN  [palmSize |-> palmSize,
       thumbCurl |-> lm.thumbCurl, indexCurl |-> lm.indexCurl,
       middleCurl |-> lm.middleCurl, ringCurl |-> lm.ringCurl,
       pinkyCurl |-> lm.pinkyCurl,
       thumbExtended |-> lm.thumbCurl < 40,
       indexExtended |-> indexExtended, middleExtended |-> middleExtended,
       ringExtended |-> ringExtended, pinkyExtended |-> pinkyExtended,
       thumbCurled |-> lm.thumbCurl > 55,
       indexCurled |-> indexCurled, middleCurled |-> middleCurled,
       ringCurled |-> ringCurled, pinkyCurled |-> pinkyCurled,
       indexMiddleSpread |-> Ratio(lm.tip8to12, palmSize),
       middleRingSpread |-> Ratio(lm.tip12to16, palmSize),
       ringPinkySpread |-> Ratio(lm.tip16to20, palmSize),
       thumbToPalm |-> Ratio(lm.tip4to9, palmSize),
       thumbToIndex |-> Ratio(lm.tip4to8, palmSize),
       indexMiddleTouching |-> RatioLess(Ratio(lm.tip8to12, palmSize), 25),
       indexMiddleUp |-> lm.indexMiddleUp,
       allFingersCurled |-> indexCurled /\ middleCurled /\ ringCurled /\ pinkyCurled,
       allFingersExtended |->
         indexExtended /\ middleExtended /\ ringExtended /\ pinkyExtended,
       hornsShape |-> indexExtended /\ pinkyExtended /\ middleCurled /\ ringCurled]

\* ---- sign rules ------------------------------------------------------------------
\* one line of a rule: if (when) score += weight / 100, -= for a negative weight
Term(when, weight) == [when |-> when, weight |-> weight]

RECURSIVE Sum(_, _)
Sum(terms, n) ==
  IF n = 0 THEN DoubleZero
  ELSE LET score == Sum(terms, n - 1)
           weight == terms[n].weight
       IN  IF ~terms[n].when THEN score
           ELSE IF weight > 0 THEN DoubleAdd(score, Literal(weight))
           ELSE DoubleSub(score, Literal(-weight))

RuleScore_signed(terms) == Sum(terms, Len(terms))

\* let score = 0; the lines of the rule; return { score: Math.max(0, score) }
RuleScore(terms) == DoubleMax(DoubleZero, Sum(terms, Len(terms)))

\* lines 187-199
Tiger(f) ==
  RuleScore(<< Term(f.indexExtended, 25), Term(f.middleExtended, 25),
               Term(f.ringCurled, 15), Term(f.pinkyCurled, 15),
               Term(f.indexMiddleTouching, 10), Term(f.indexMiddleUp, 10),
               Term(f.ringExtended, -30), Term(f.pinkyExtended, -30) >>)

\* lines 203-217
Snake(f) ==
  RuleScore(<< Term(f.allFingersCurled, 40), Term(f.thumbCurled, 20),
               Term(RatioLess(f.thumbToPalm, 80), 20), Term(f.pinkyCurled, 10),
               Term(f.indexCurl > 60, 10),
               Term(f.indexExtended, -30), Term(f.middleExtended, -20),
               Term(f.pinkyExtended, -30) >>)

Ram_noSpreadBonus(f) ==
  RuleScore(<< Term(f.indexExtended, 20), Term(f.middleExtended, 20),
               Term(f.ringCurled, 15), Term(f.pinkyCurled, 15),
               Term(~f.indexMiddleTouching, 10),
               Term(f.indexMiddleTouching, -30),
               Term(f.ringExtended, -30), Term(f.pinkyExtended, -30) >>)

\* lines 221-235
Ram(f) ==
  RuleScore(<< Term(f.indexExtended, 20), Term(f.middleExtended, 20),
               Term(f.ringCurled, 15), Term(f.pinkyCurled, 15),
               Term(RatioGreater(f.indexMiddleSpread, 35), 20),
               Term(~f.indexMiddleTouching, 10),
               Term(f.indexMiddleTouching, -30),
               Term(f.ringExtended, -30), Term(f.pinkyExtended, -30) >>)

\* lines 238-251
Monkey(f) ==
  RuleScore(<< Term(f.allFingersExtended, 40),
               Term(f.thumbCurled \/ f.thumbCurl > 30, 20),
               Term(RatioLess(f.thumbToPalm, 70), 15),
               Term(RatioLess(f.indexMiddleSpread, 40), 10),
               Term(RatioLess(f.middleRingSpread, 40), 10),
               Term(f.thumbExtended, -30), Term(f.indexCurled, -30),
               Term(f.middleCurled, -30) >>)

\* lines 254-268
Boar(f) ==
  RuleScore(<< Term(f.allFingersExtended, 30), Term(f.thumbExtended, 25),
               Term(RatioGreater(f.indexMiddleSpread, 30), 10),
               Term(RatioGreater(f.middleRingSpread, 20), 10),
               Term(RatioGreater(f.ringPinkySpread, 20), 10),
               Term(RatioGreater(f.thumbToPalm, 90), 15),
               Term(f.indexCurled, -30), Term(f.middleCurled, -30),
               Term(f.thumbCurled, -30) >>)

\* lines 272-286
Horse(f) ==
  RuleScore(<< Term(f.indexExtended, 30), Term(f.middleCurled, 20),
               Term(f.ringCurled, 15), Term(f.pinkyCurled, 15),
               Term(f.thumbExtended, 10),
               Term(RatioGreater(f.thumbToIndex, 60), 10),
               Term(f.middleExtended, -35), Term(f.ringExtended, -20),
               Term(f.pinkyExtended, -20) >>)

\* lines 290-302
Bird(f) ==
  RuleScore(<< Term(f.pinkyExtended, 25), Term(f.ringExtended, 20),
               Term(f.indexCurled, 20), Term(f.middleCurled, 20),
               Term(RatioLess(f.ringPinkySpread, 35), 10),
               Term(f.indexExtended, -35), Term(f.middleExtended, -35),
               Term(f.pinkyCurled, -30) >>)

\* lines 306-320
Dog(f) ==
  RuleScore(<< Term(f.allFingersExtended, 30), Term(f.thumbExtended, 10),
               Term(RatioLess(f.indexMiddleSpread, 25), 15),
               Term(RatioLess(f.middleRingSpread, 20), 15),
               Term(RatioLess(f.ringPinkySpread, 20), 15),
               Term(RatioLess(f.thumbToPalm, 90), 15),
               Term(RatioGreater(f.indexMiddleSpread, 40), -30),
               Term(f.indexCurled, -30) >>)

\* lines 324-339
Dragon(f) ==
  RuleScore(<< Term(f.indexExtended, 20),
               Term(f.middleCurl > 25 /\ f.middleCurl < 65, 20),
               Term(f.ringCurl > 25 /\ f.ringCurl < 65, 20),
               Term(f.pinkyCurled, 15), Term(f.thumbExtended, 15),
               Term(RatioGreater(f.indexMiddleSpread, 30), 10),
               Term(f.middleExtended /\ f.ringExtended, -20),
               Term(f.allFingersCurled, -30) >>)

\* lines 342-354
Ox(f) ==
  RuleScore(<< Term(f.hornsShape, 50), Term(f.indexExtended, 15),
               Term(f.pinkyExtended, 15), Term(f.middleCurled, 10),
               Term(f.ringCurled, 10),
               Term(f.middleExtended, -35), Term(f.ringExtended, -35),
               Term(f.pinkyCurled, -30) >>)

\* lines 358-371
Hare(f) ==
  RuleScore(<< Term(f.pinkyExtended, 30), Term(f.indexCurled, 20),
               Term(f.middleCurled, 20), Term(f.ringCurled, 15),
               Term(f.thumbCurl > 30, 10),
               Term(f.indexExtended, -30), Term(f.middleExtended, -30),
               Term(f.ringExtended, -20), Term(f.pinkyCurled, -50) >>)

\* lines 375-390
Rat(f) ==
  RuleScore(<< Term(f.thumbExtended, 35), Term(f.indexCurled, 15),
               Term(f.middleCurled, 15), Term(f.ringCurled, 15),
               Term(f.pinkyCurled, 15),
               Term(RatioGreater(f.thumbToPalm, 80), 5),
               Term(f.indexExtended, -30), Term(f.middleExtended, -30),
               Term(f.pinkyExtended, -30), Term(f.thumbCurled, -50) >>)

\* the score each rule of signRules returns for the features f
signRules(f) ==
  [Tiger |-> Tiger(f), Snake |-> Snake(f), Ram |-> Ram(f), Monkey |-> Monkey(f),
   Boar |-> Boar(f), Horse |-> Horse(f), Bird |-> Bird(f), Dog |-> Dog(f),
   Dragon |-> Dragon(f), Ox |-> Ox(f), Hare |-> Hare(f), Rat |-> Rat(f)]

\* ---- classify --------------------------------------------------------------------
Better_orEqual(score, bestScore) == ~DoubleLess(score, bestScore)

\* line 406: score > bestScore
Better(score, bestScore) == DoubleLess(bestScore, score)

\* lines 400-410: bestSign and bestScore after the first n entries of signRules
RECURSIVE Best(_, _)
Best(scores, n) ==
  IF n = 0 THEN [bestSign |-> NULL, bestScore |-> DoubleZero]
  ELSE LET b == Best(scores, n - 1)
           score == scores[SignOrder[n]]
       IN  IF Better(score, b.bestScore)
             THEN [bestSign |-> SignOrder[n], bestScore |-> score]
             ELSE b

\* what classify returns for too few points, and the value of a call not yet made
NullResult == [kind |-> "null"]

Pending == [kind |-> "pending"]

\* a call that ends with an exception instead of a value
Raised == [kind |-> "TypeError"]

TooFewPoints_onlyMissing(landmarks) == landmarks.kind = "missing"

\* line 396
TooFewPoints(landmarks) ==
  landmarks.kind = "missing" \/ landmarks.length < LANDMARK_COUNT

\* getHandFeatures reads lm[0] to lm[20]: dist (lines 21-24) takes a.x of each,
\* which raises a TypeError where the point is missing
HasAllPoints(landmarks) ==
  landmarks.kind = "points" /\ landmarks.length >= LANDMARK_COUNT

\* lines 395-431; of the object returned the sign, the confidence and the score
\* table are kept
classify(landmarks) ==
  IF TooFewPoints(landmarks) THEN NullResult
  ELSE IF ~HasAllPoints(landmarks) THEN Raised
  ELSE LET features == getHandFeatures(landmarks.hand)
           scores == signRules(features)
           results == [sign \in Signs |-> DoubleMin(Literal(100), scores[sign])]
           best == Best(scores, Len(SignOrder))
       IN  IF DoubleLess(best.bestScore, Literal(minConfidence))
             THEN [kind |-> "object", sign |-> NULL, confidence |-> DoubleZero,
                   allScores |-> results]
             ELSE [kind |-> "object", sign |-> best.bestSign,
                   confidence |-> DoubleMin(Literal(100), best.bestScore),
                   allScores |-> results]

\* ---- state -------------------------------------------------------------------
VARIABLES
  currentSequence,    \* signs registered so far
  lastSignTime,       \* Date.now() of the last registered sign
  lastDetectedSign,   \* sign of the hold in progress, or NULL
  signHoldCount,      \* samples the hold in progress has lasted
  matchingJutsus,     \* result of the last findMatchingJutsus
  timers,             \* due times of the pending setTimeout callbacks, oldest first
  now,                \* the clock
  out,                \* what the last callback did: the events it fired, in order
  run,                \* the run of admitted samples of one sign the input ends with
  feed,               \* the input so far, as long as it spells a catalog jutsu
  shownSigns,         \* the signs the hand takes in this behaviour
  landmarks,          \* the landmark set classify is called with
  classification,     \* what that call returned, Pending before it
  calls,              \* the calls of classify so far: argument and result, in order
  activeEffect,       \* Effects: the effect on screen, or NULL
  chidoriInterval,    \* Effects: the chidori spawn interval is running
  dragonInterval,     \* Effects: the water dragon spawn interval is running
  endTimers,          \* Effects: the pending end timers, each with its due time
                      \* and the number of the trigger call that scheduled it
  triggers,           \* Effects: calls of trigger so far
  effectNow           \* Effects: the clock of the renderer, in ms

vars == << currentSequence, lastSignTime, lastDetectedSign, signHoldCount,
           matchingJutsus, timers, now, out, run, feed, shownSigns,
           landmarks, classification, calls,
           activeEffect, chidoriInterval, dragonInterval, endTimers, triggers,
           effectNow >>

\* the closure state of Effects that trigger and the end timers touch
effectVars ==
  << activeEffect, chidoriInterval, dragonInterval, endTimers, triggers, effectNow >>

\* no effect was triggered yet
EffectsIdle ==
  /\ activeEffect = NULL
  /\ chidoriInterval = FALSE
  /\ dragonInterval = FALSE
  /\ endTimers = {}
  /\ triggers = 0
  /\ effectNow = 0

\* the closure state as the record the operators above work on
Matcher ==
  [currentSequence |-> currentSequence,
   lastSignTime |-> lastSignTime,
   lastDetectedSign |-> lastDetectedSign,
   signHoldCount |-> signHoldCount,
   matchingJutsus |-> matchingJutsus,
   events |-> <<>>,
   scheduled |-> <<>>,
   appended |-> FALSE]

Store(m) ==
  /\ currentSequence' = m.currentSequence
  /\ lastSignTime' = m.lastSignTime
  /\ lastDetectedSign' = m.lastDetectedSign
  /\ signHoldCount' = m.signHoldCount
  /\ matchingJutsus' = m.matchingJutsus
  /\ timers' = timers \o m.scheduled

\* fired tells that the last callback was a deferred check
Out(m) ==
  [events |-> m.events, appended |-> m.appended, fired |-> FALSE]

Quiet == [events |-> <<>>, appended |-> FALSE, fired |-> FALSE]

HasEvent(events, e) == \E i \in 1..Len(events) : events[i] = e

\* ---- observers ------------------------------------------------------------------
FeedOff == [n |-> -1, js |-> {}, completed |-> <<>>]

\* the catalog jutsus whose signs, each repeated SIGN_HOLD_FRAMES times, start
\* with the n samples fed so far plus the sample sign
FeedNext(f, sign) ==
  { id \in f.js :
      LET signs == jutsus[JutsuById(id)].signs
      IN  /\ f.n < SIGN_HOLD_FRAMES * Len(signs)
          /\ signs[(f.n \div SIGN_HOLD_FRAMES) + 1] = sign }

\* the feed ends when a sample does not continue it or is taken after the timeout
FeedStep(f, sign, m) ==
  IF f.n = -1 \/ HasEvent(m.events, ResetEvent("timeout")) \/ FeedNext(f, sign) = {}
    THEN FeedOff
    ELSE [n |-> f.n + 1, js |-> FeedNext(f, sign),
          completed |-> f.completed
             \o [i \in 1..Len(SelectSeq(m.events, LAMBDA e : e.type = "complete"))
                   |-> SelectSeq(m.events, LAMBDA e : e.type = "complete")[i].id]]

\* len counts the admitted samples of the run up to SIGN_HOLD_FRAMES (which then
\* stands for "SIGN_HOLD_FRAMES or more"), appends the signs the run registered,
\* up to 2 ("more than one"); fresh tells that the sign differed from the last
\* registered one when the run began
RunStep(r, sign, seq, appended) ==
  LET r1 == IF r.sign = sign
              THEN [r EXCEPT !.len = IF @ < SIGN_HOLD_FRAMES THEN @ + 1 ELSE @]
              ELSE [sign |-> sign, len |-> 1, appends |-> 0,
                    fresh |-> (seq = <<>> \/ seq[Len(seq)] # sign)]
  IN  [r1 EXCEPT !.appends = IF appended /\ @ < 2 THEN @ + 1 ELSE @]

NoRun == [sign |-> NULL, len |-> 0, appends |-> 0, fresh |-> TRUE]

\* ---- specification -----------------------------------------------------------
Init ==
  /\ currentSequence = <<>>
  /\ lastSignTime = 0
  /\ lastDetectedSign = NULL
  /\ signHoldCount = 0
  /\ matchingJutsus = <<>>
  /\ timers = <<>>
  /\ now = 0
  /\ out = Quiet
  /\ run = NoRun
  /\ feed = [n |-> 0, js |-> JutsuIds, completed |-> <<>>]
  /\ shownSigns \in Alphabets
  /\ landmarks = NoLandmarks
  /\ classification = Pending
  /\ calls = <<>>
  /\ EffectsIdle

\* onResults with a hand whose classification is admitted by the matcher
SampleAdmitted ==
  \E c \in Classifications :
    /\ c.sign \in shownSigns
    /\ ~Rejected(c.sign, c.confidence)
    /\ LET m == processSign(Matcher, c, now)
       IN  /\ m.signHoldCount <= MaxHold
           /\ Len(timers) + Len(m.scheduled) <= TimerCap(shownSigns)
           /\ Store(m)
           /\ out' = Out(m)
           /\ run' = RunStep(run, c.sign, currentSequence, m.appended)
           /\ feed' = FeedStep(feed, c.sign, m)
    /\ UNCHANGED << now, shownSigns, landmarks, classification, calls, effectVars >>

\* onResults with a hand whose classification has no sign or a low confidence
SampleRejected ==
  \E c \in Classifications :
    /\ c.sign \in shownSigns \cup {NULL}
    /\ Rejected(c.sign, c.confidence)
    /\ LET m == processSign(Matcher, c, now)
       IN  /\ Store(m)
           /\ out' = Out(m)
    /\ run' = NoRun
    /\ feed' = FeedOff
    /\ UNCHANGED << now, shownSigns, landmarks, classification, calls, effectVars >>

\* onResults with no hand, or with hands classify returns null for:
\* processSign(null) returns at line 76
SampleNone ==
  /\ out' = Quiet
  /\ feed' = FeedOff
  /\ UNCHANGED << currentSequence, lastSignTime, lastDetectedSign, signHoldCount,
                  matchingJutsus, timers, now, run, shownSigns,
                  landmarks, classification, calls, effectVars >>

\* the key handler of app.js: resetSequence('manual')
ManualReset ==
  /\ LET m == resetSequence(Matcher, "manual")
     IN  /\ Store(m)
         /\ out' = Out(m)
  /\ run' = NoRun
  /\ feed' = FeedOff
  /\ UNCHANGED << now, shownSigns, landmarks, classification, calls, effectVars >>

\* a pending setTimeout callback runs, not before its delay has passed
TimerFire ==
  /\ timers # <<>>
  /\ Head(timers) <= now
  /\ LET m == DeferredCheck(Matcher)
     IN  /\ currentSequence' = m.currentSequence
         /\ lastSignTime' = m.lastSignTime
         /\ lastDetectedSign' = m.lastDetectedSign
         /\ signHoldCount' = m.signHoldCount
         /\ matchingJutsus' = m.matchingJutsus
         /\ out' = [Out(m) EXCEPT !.fired = TRUE]
  /\ timers' = Tail(timers)
  /\ feed' = FeedOff
  /\ UNCHANGED << now, run, shownSigns, landmarks, classification, calls, effectVars >>

\* time passes between two callbacks
Tick ==
  \E t \in Instants :
    /\ t > now
    /\ now' = t
    /\ out' = Quiet
    /\ UNCHANGED << currentSequence, lastSignTime, lastDetectedSign, signHoldCount,
                    matchingJutsus, timers, run, feed, shownSigns,
                    landmarks, classification, calls, effectVars >>

Next ==
  \/ SampleAdmitted
  \/ SampleRejected
  \/ SampleNone
  \/ ManualReset
  \/ TimerFire
  \/ Tick

Spec == Init /\ [][Next]_vars

\* the same detector in front of a hand that takes the signs of a three-sign jutsu
ShortInit ==
  /\ currentSequence = <<>>
  /\ lastSignTime = 0
  /\ lastDetectedSign = NULL
  /\ signHoldCount = 0
  /\ matchingJutsus = <<>>
  /\ timers = <<>>
  /\ now = 0
  /\ out = Quiet
  /\ run = NoRun
  /\ feed = [n |-> 0, js |-> JutsuIds, completed |-> <<>>]
  /\ shownSigns \in ShortAlphabets
  /\ landmarks = NoLandmarks
  /\ classification = Pending
  /\ calls = <<>>
  /\ EffectsIdle

ShortSpec == ShortInit /\ [][Next]_vars

\* the event loop runs a callback whose delay has passed, and time does pass;
\* whether another camera frame ever arrives is left open
LiveSpec == ShortSpec /\ WF_vars(TimerFire) /\ WF_vars(Tick)

\* ---- the classifier on its own ---------------------------------------------------
\* classify is called with one landmark set; the matcher is idle and stays so
ClassifierInit ==
  /\ currentSequence = <<>>
  /\ lastSignTime = 0
  /\ lastDetectedSign = NULL
  /\ signHoldCount = 0
  /\ matchingJutsus = <<>>
  /\ timers = <<>>
  /\ now = 0
  /\ out = Quiet
  /\ run = NoRun
  /\ feed = FeedOff
  /\ shownSigns = {}
  /\ landmarks \in LandmarkSets
  /\ classification = Pending
  /\ calls = <<>>
  /\ EffectsIdle

\* a classifier with hysteresis: it keeps the sign of the call before unless
\* this frame is classified with more confidence
Classify_smoothed ==
  LET result == classify(landmarks)
      before == IF calls = <<>> THEN Pending
                ELSE calls[Len(calls)].classification
  IN  /\ classification = Pending
      /\ classification' =
           (IF result.kind = "object" /\ before.kind = "object"
                 /\ before.sign # NULL
                 /\ ~DoubleLess(before.confidence, result.confidence)
              THEN [result EXCEPT !.sign = before.sign]
              ELSE result)
      /\ calls' = Append(calls, [landmarks |-> landmarks,
                                 classification |-> classification'])
      /\ UNCHANGED << currentSequence, lastSignTime, lastDetectedSign,
                      signHoldCount, matchingJutsus, timers, now, out, run, feed,
                      shownSigns, landmarks, effectVars >>

Classify ==
  /\ classification = Pending
  /\ classification' = classify(landmarks)
  /\ calls' = Append(calls, [landmarks |-> landmarks,
                             classification |-> classification'])
  /\ UNCHANGED << currentSequence, lastSignTime, lastDetectedSign, signHoldCount,
                  matchingJutsus, timers, now, out, run, feed, shownSigns, landmarks,
                  effectVars >>

ClassifierNext == Classify

ClassifierSpec == ClassifierInit /\ [][ClassifierNext]_vars

\* ---- frame after frame -------------------------------------------------------
\* a camera session: onResults calls classify once per frame, on frames drawn
\* from one pose family (index and middle up, ring up or curled, three gaps)
\* and from the frames classify refuses
ReplayHands ==
  { [thumbCurl |-> 35, indexCurl |-> 20, middleCurl |-> 20, ringCurl |-> r,
     pinkyCurl |-> 70, palmSize |-> 100, tip8to12 |-> g, tip12to16 |-> 30,
     tip16to20 |-> 10, tip4to9 |-> 100, tip4to8 |-> 70, indexMiddleUp |-> TRUE] :
       r \in {20, 60}, g \in IndexMiddleGaps }

ReplaySets ==
  {NoLandmarks, [kind |-> "points", length |-> LANDMARK_COUNT - 1]}
    \cup { [kind |-> "points", length |-> n, hand |-> h] :
             n \in LANDMARK_COUNT..MaxPoints, h \in ReplayHands }

ReplayInit ==
  /\ currentSequence = <<>>
  /\ lastSignTime = 0
  /\ lastDetectedSign = NULL
  /\ signHoldCount = 0
  /\ matchingJutsus = <<>>
  /\ timers = <<>>
  /\ now = 0
  /\ out = Quiet
  /\ run = NoRun
  /\ feed = FeedOff
  /\ shownSigns = {}
  /\ landmarks \in ReplaySets
  /\ classification = Pending
  /\ calls = <<>>
  /\ EffectsIdle

\* the next frame arrives after the call on this one has returned
NextFrame ==
  /\ classification # Pending
  /\ Len(calls) < MaxCalls
  /\ landmarks' \in ReplaySets
  /\ classification' = Pending
  /\ UNCHANGED << currentSequence, lastSignTime, lastDetectedSign, signHoldCount,
                  matchingJutsus, timers, now, out, run, feed, shownSigns, calls,
                  effectVars >>

ReplayNext == Classify \/ NextFrame

ReplaySpec == ReplayInit /\ [][ReplayNext]_vars

\* ---- the effects renderer ----------------------------------------------------
\* the effects trigger knows, one per catalog jutsu
EffectNames == {"fireball", "chidori", "shadowclone", "waterdragon"}

\* the argument of scheduleEffectEnd in each trigger function, in ms
Duration(effectName) ==
  CASE effectName = "fireball" -> 4500
    [] effectName = "chidori" -> 3500
    [] effectName = "shadowclone" -> 4000
    [] effectName = "waterdragon" -> 4500

\* the instants at which a completion or a key can call trigger: together, one
\* and two seconds apart, and after every effect triggered at 0 has ended
EffectInstants == {0, 1000, 2000, 5000}

\* a pending end timer that is due
Due == { t \in endTimers : t.due <= effectNow }

\* Effects.trigger(effectName), lines 2180-2193, with the trigger function it
\* dispatches to and the scheduleEffectEnd call that function ends with
Trigger ==
  \E effectName \in EffectNames :
    /\ triggers < MaxTriggers
    /\ Due = {}
    /\ activeEffect' = effectName
    /\ chidoriInterval' = (effectName = "chidori")
    /\ dragonInterval' = (effectName = "waterdragon")
    /\ triggers' = triggers + 1
    /\ endTimers' = endTimers \cup
          { [due |-> effectNow + Duration(effectName), by |-> triggers + 1] }
    /\ UNCHANGED << currentSequence, lastSignTime, lastDetectedSign, signHoldCount,
                    matchingJutsus, timers, now, out, run, feed, shownSigns,
                    landmarks, classification, calls, effectNow >>

\* the callback of scheduleEffectEnd, lines 1916-1920: of the timers that are
\* due, the one that was due first runs, the older one of two due together
EffectEnd ==
  \E t \in Due :
    /\ \A u \in Due : t.due < u.due \/ (t.due = u.due /\ t.by <= u.by)
    /\ activeEffect' = NULL
    /\ chidoriInterval' = FALSE
    /\ dragonInterval' = FALSE
    /\ endTimers' = endTimers \ {t}
    /\ UNCHANGED << currentSequence, lastSignTime, lastDetectedSign, signHoldCount,
                    matchingJutsus, timers, now, out, run, feed, shownSigns,
                    landmarks, classification, calls, triggers, effectNow >>

\* time passes up to the next instant or the next due time; a timer that is
\* due runs before
EffectTick ==
  LET next == { x \in EffectInstants \cup { t.due : t \in endTimers } : x > effectNow }
  IN  /\ Due = {}
      /\ next # {}
      /\ effectNow' = CHOOSE x \in next : \A y \in next : x <= y
      /\ UNCHANGED << currentSequence, lastSignTime, lastDetectedSign, signHoldCount,
                      matchingJutsus, timers, now, out, run, feed, shownSigns,
                      landmarks, classification, calls, activeEffect,
                      chidoriInterval, dragonInterval, endTimers, triggers >>

EffectsInit ==
  /\ currentSequence = <<>>
  /\ lastSignTime = 0
  /\ lastDetectedSign = NULL
  /\ signHoldCount = 0
  /\ matchingJutsus = <<>>
  /\ timers = <<>>
  /\ now = 0
  /\ out = Quiet
  /\ run = NoRun
  /\ feed = FeedOff
  /\ shownSigns = {}
  /\ landmarks = NoLandmarks
  /\ classification = Pending
  /\ calls = <<>>
  /\ EffectsIdle

EffectsNext == Trigger \/ EffectEnd \/ EffectTick

EffectsSpec == EffectsInit /\ [][EffectsNext]_vars

\* ---- hold debounce -----------------------------------------------------------
Last(seq) == seq[Len(seq)]

\* the timeout condition of a sample, on the state the sample finds
Expired ==
  Len(currentSequence) > 0 /\ now - lastSignTime > 5000

C2_EighthSamplePushes ==
  [][ (run.len = SIGN_HOLD_FRAMES - 1 /\ run'.len = SIGN_HOLD_FRAMES /\ run'.fresh)
        => (out'.appended /\ run'.appends = 1) ]_vars

\* C3: one run of admitted samples of a sign pushes that sign at most once
C3_HeldGestureTriggersOnce ==
  run.appends <= 1

\* ---- the registered sequence ------------------------------------------------------
NoAdjacentEqual(seq) ==
  \A i \in 1..(Len(seq) - 1) : seq[i] # seq[i + 1]

\* C4: no two adjacent elements of currentSequence are equal, in the state and in
\* the sequence every update event carries
C4_NoAdjacentEqual ==
  /\ NoAdjacentEqual(currentSequence)
  /\ \A i \in 1..Len(out.events) : NoAdjacentEqual(out.events[i].seq)

\* the repeat test of line 109 has turned a sign down: the hold counter reached 8
\* on the last registered sign and the run pushed nothing
C4_Witness ==
  /\ currentSequence # <<>>
  /\ lastDetectedSign = Last(currentSequence)
  /\ signHoldCount = SIGN_HOLD_FRAMES
  /\ run.len = SIGN_HOLD_FRAMES
  /\ run.appends = 0

IsCatalogPrefix(seq) ==
  \E i \in 1..Len(jutsus) :
    /\ Len(seq) <= Len(jutsus[i].signs)
    /\ SubSeq(jutsus[i].signs, 1, Len(seq)) = seq

\* C5 as stated: between two callbacks currentSequence is empty or a prefix of a
\* catalog jutsu
C5_AlwaysCatalogPrefix ==
  currentSequence = <<>> \/ IsCatalogPrefix(currentSequence)

\* C5 amended: currentSequence is empty or a prefix of a catalog jutsu, or the
\* matching set is empty and the deferred check scheduled by the last push is
\* still pending
C5_PrefixOrCheckPending ==
  \/ currentSequence = <<>>
  \/ IsCatalogPrefix(currentSequence) /\ matchingJutsus # <<>>
  \/ /\ ~IsCatalogPrefix(currentSequence)
     /\ matchingJutsus = <<>>
     /\ \E i \in 1..Len(timers) : timers[i] = lastSignTime + 1000

C5_Witness ==
  /\ currentSequence # <<>>
  /\ ~IsCatalogPrefix(currentSequence)
  /\ timers # <<>>
  /\ out = Quiet

\* ---- completion ------------------------------------------------------------------
\* C6: when the input from the initial state is exactly the signs of a catalog
\* jutsu, 8 admitted samples each, none of them taken after the timeout, one
\* completion event has been fired, for that jutsu, and currentSequence is empty;
\* before the last of these samples no completion event has been fired
C6_FeedCompletesJutsu ==
  /\ \A i \in 1..Len(jutsus) :
       (feed.n = SIGN_HOLD_FRAMES * Len(jutsus[i].signs) /\ jutsus[i].id \in feed.js)
          => (feed.completed = << jutsus[i].id >> /\ currentSequence = <<>>)
  /\ (feed.n >= 0 /\ \A i \in 1..Len(jutsus) :
        jutsus[i].id \in feed.js => feed.n < SIGN_HOLD_FRAMES * Len(jutsus[i].signs))
          => feed.completed = <<>>

C6_Witness ==
  /\ feed.n = 48
  /\ feed.js = {"fireball"}
  /\ feed.completed = << "fireball" >>
  /\ now > 0

\* C7: a completion event follows, in the same sample, the update event of a
\* push that made currentSequence equal to the signs of the completed jutsu, with
\* that jutsu alone in the matching set
C7_CompletionOnlyOnExactMatch ==
  \A i \in 1..Len(out.events) :
    out.events[i].type = "complete" =>
      /\ out.appended
      /\ i > 1
      /\ out.events[i - 1].type = "update"
      /\ out.events[i - 1].seq = jutsus[JutsuById(out.events[i].id)].signs
      /\ Len(out.events[i - 1].matching) = 1
      /\ out.events[i - 1].matching[1].id = out.events[i].id

C7_Witness ==
  /\ Len(out.events) = 3
  /\ out.events[2].type = "complete"
  /\ out.events[2].id = "waterdragon"

\* ---- timeout and rejected samples -----------------------------------------------
\* C8: a sample that finds a non-empty sequence older than 5000 ms resets it with
\* reason timeout before anything else: the reset event is the only event, the
\* sequence is empty afterwards and the hold counter starts again from the sample;
\* a sample that finds the sequence 5000 ms old or younger fires no timeout reset
C8_Timeout ==
  [][ /\ (Expired /\ (SampleAdmitted \/ SampleRejected)) =>
             /\ out'.events = << ResetEvent("timeout") >>
             /\ currentSequence' = <<>>
             /\ matchingJutsus' = <<>>
             /\ signHoldCount' = (IF run'.len = 0 THEN 0 ELSE 1)
      /\ (~Expired /\ HasEvent(out'.events, ResetEvent("timeout"))) =>
             ~(SampleAdmitted \/ SampleRejected) ]_vars

C8_Witness ==
  /\ out.events = << ResetEvent("timeout") >>
  /\ signHoldCount = 1

\* C9: a rejected sample clears the hold counter and lastDetectedSign and, unless
\* the timeout applies, changes nothing else and fires no event (a rejected
\* sample is a step that ends the run of admitted samples)
C9_RejectedSample ==
  [][ (run' = NoRun /\ SampleRejected) =>
        /\ lastDetectedSign' = NULL
        /\ signHoldCount' = 0
        /\ timers' = timers
        /\ ~Expired =>
             /\ currentSequence' = currentSequence
             /\ matchingJutsus' = matchingJutsus
             /\ lastSignTime' = lastSignTime
             /\ out'.events = <<>> ]_vars

\* a rejected sample has interrupted a hold and left a registered sequence alone
C9_Witness ==
  /\ currentSequence # <<>>
  /\ run = NoRun
  /\ lastDetectedSign = NULL
  /\ signHoldCount = 0

\* C10: a frame without a classification clears the hold counter and
\* lastDetectedSign and resets a sequence older than the timeout
C10_NoResultFrameClearsHold ==
  [][ SampleNone =>
        /\ lastDetectedSign' = NULL
        /\ signHoldCount' = 0
        /\ Expired => currentSequence' = <<>> ]_vars

\* ---- the deferred no-match check ---------------------------------------------
Stray == currentSequence # <<>> /\ ~IsCatalogPrefix(currentSequence)

\* the last instant of the clock
Horizon == CHOOSE t \in Instants : \A u \in Instants : u <= t

HasReset(events) == \E i \in 1..Len(events) : events[i].type = "reset"

\* C11: when the registered signs are non-empty and a prefix of no catalog
\* jutsu, they are eventually reset to empty with a reset event, even if no
\* further sample arrives.  The clock stops at Horizon, so this is stated for
\* sequences whose oldest pending check comes due by then.
C11_StrayIsEventuallyReset ==
  (Stray /\ timers # <<>> /\ Head(timers) <= Horizon)
     ~> (currentSequence = <<>> /\ HasReset(out.events))

C11_Witness ==
  /\ out.fired
  /\ out.events = << ResetEvent("no-match") >>
  /\ currentSequence = <<>>
  /\ run.appends = 1

\* C12: a reset with reason no-match never clears a registered sequence earlier
\* than NO_MATCH_DELAY_MS after the push that left its matching set empty.
\* Stated for a sequence of one sign, whose only push is that push.
C12_GraceWindow ==
  [][ (HasEvent(out'.events, ResetEvent("no-match")) /\ Len(currentSequence) = 1)
        => now - lastSignTime >= NO_MATCH_DELAY_MS ]_vars

\* C13: the deferred check reads the matching set as it is when the check runs:
\* if it is non-empty the check changes nothing and fires no event, so a reset
\* event with reason no-match is fired only by a check, for registered signs
\* that are a prefix of no catalog jutsu
C13_CheckReadsLiveMatchingSet ==
  [][ /\ (TimerFire /\ matchingJutsus # <<>>)
           => /\ UNCHANGED << currentSequence, lastSignTime, lastDetectedSign,
                              signHoldCount, matchingJutsus >>
              /\ out'.events = <<>>
      /\ HasEvent(out'.events, ResetEvent("no-match")) => (Stray /\ out'.fired) ]_vars

C13_Witness ==
  /\ out.fired
  /\ out.events = <<>>
  /\ matchingJutsus # <<>>
  /\ IsCatalogPrefix(currentSequence)
  /\ signHoldCount > 0

\* C14: a deferred check that runs when no sign is registered (the sequence was
\* cleared by a completion, a timeout or a manual reset since it was scheduled)
\* changes nothing in the matcher, in particular not the hold in progress, and
\* fires no event
C14_StaleCheckIsNoOp ==
  [][ (TimerFire /\ currentSequence = <<>>)
        => /\ UNCHANGED << currentSequence, lastSignTime, lastDetectedSign,
                           signHoldCount, matchingJutsus >>
           /\ out'.events = <<>> ]_vars

\* ---- manual reset --------------------------------------------------------------
\* C15: from any reachable state resetSequence('manual') leaves the matcher idle
\* (no sign registered, matching set empty, no hold in progress) and runs none of
\* the timeout, hold and push steps: the time of the last sign and the pending
\* checks stay as they are, and the only event is the reset event of a sequence
\* that was not empty
C15_ManualResetLeavesIdle ==
  [][ ManualReset
        => /\ currentSequence' = <<>>
           /\ matchingJutsus' = <<>>
           /\ lastDetectedSign' = NULL
           /\ signHoldCount' = 0
           /\ lastSignTime' = lastSignTime
           /\ timers' = timers
           /\ ~out'.appended
           /\ out'.events = IF currentSequence # <<>>
                               THEN << ResetEvent("manual") >> ELSE <<>> ]_vars

C15_Witness ==
  /\ out.events = << ResetEvent("manual") >>
  /\ currentSequence = <<>>
  /\ signHoldCount = 0
  /\ now - lastSignTime > SEQUENCE_TIMEOUT_MS

\* ---- events of a push ----------------------------------------------------------
EventsOfType(events, type) == { i \in 1..Len(events) : events[i].type = type }

Spells(seq) == { i \in 1..Len(jutsus) : jutsus[i].signs = seq }

\* C16 as stated: a sample that pushes a sign fires exactly one of the two
\* events, the completion event when the push completes a jutsu and otherwise
\* the update event; a completing sample fires no update event
C16_OneEventPerPush ==
  out.appended =>
    /\ Cardinality(EventsOfType(out.events, "update")
                     \cup EventsOfType(out.events, "complete")) = 1
    /\ EventsOfType(out.events, "complete") # {}
          => EventsOfType(out.events, "update") = {}

\* C16 as the code has it: a sample that pushes a sign fires the update event
\* first; when the pushed sequence spells a jutsu the completion event of that
\* jutsu and the reset event with reason completed follow in the same sample,
\* otherwise the update event is the only event.  A sample that pushes nothing
\* fires neither an update nor a completion event.
C16_UpdateThenCompletion ==
  /\ out.appended =>
        /\ out.events # <<>>
        /\ out.events[1].type = "update"
        /\ LET seq == out.events[1].seq
           IN  IF Spells(seq) # {}
                 THEN /\ Len(out.events) = 3
                      /\ out.events[2].type = "complete"
                      /\ JutsuById(out.events[2].id) \in Spells(seq)
                      /\ out.events[3] = ResetEvent("completed")
                 ELSE Len(out.events) = 1
  /\ ~out.appended =>
        EventsOfType(out.events, "update") \cup EventsOfType(out.events, "complete") = {}

C16_Witness ==
  /\ out.appended
  /\ Len(out.events) = 3
  /\ out.events[1].type = "update"
  /\ out.events[2] = CompleteEvent("chidori")

\* the catalog positions of the jutsus whose signs start with seq
PrefixedBy(seq) ==
  { k \in 1..Len(jutsus) :
      /\ Len(seq) <= Len(jutsus[k].signs)
      /\ SubSeq(jutsus[k].signs, 1, Len(seq)) = seq }

\* C17: every update event carries the registered signs as they are after the
\* push and exactly the catalog jutsus whose signs have them as a positional
\* prefix, all of them, in catalog order, each with progress = number of
\* registered signs, total = number of signs of the jutsu, 1 <= progress <= total
C17_UpdatePayload ==
  \A i \in EventsOfType(out.events, "update") :
    LET e == out.events[i]
    IN  /\ e.seq # <<>>
        /\ \/ currentSequence = e.seq
           \/ currentSequence = <<>> /\ HasEvent(out.events, ResetEvent("completed"))
        /\ Len(e.matching) = Cardinality(PrefixedBy(e.seq))
        /\ \A k \in 1..Len(e.matching) :
             /\ JutsuById(e.matching[k].id) \in PrefixedBy(e.seq)
             /\ e.matching[k].progress = Len(e.seq)
             /\ e.matching[k].total = Len(jutsus[JutsuById(e.matching[k].id)].signs)
             /\ 1 <= e.matching[k].progress
             /\ e.matching[k].progress <= e.matching[k].total
        /\ \A k, l \in 1..Len(e.matching) :
             k < l => JutsuById(e.matching[k].id) < JutsuById(e.matching[l].id)

C17_Witness ==
  /\ out.events = << UpdateEvent(<< "Ox" >>, findMatchingJutsus(<< "Ox" >>)) >>
  /\ Len(out.events[1].matching) = 2
  /\ out.events[1].matching[1].id = "chidori"
  /\ out.events[1].matching[2].id = "waterdragon"

\* ---- classifier ------------------------------------------------------------------
DoubleOne == Literal(100)

AtMost(a, b) == ~DoubleLess(b, a)

\* the scores of the rules for the hand classify was called with, as returned
\* by the rules (the table of the result holds them capped at 1)
RuleScores == signRules(getHandFeatures(landmarks.hand))

Called == classification # Pending

\* C18: for every landmark set of at least LANDMARK_COUNT points classify
\* returns sign null with confidence 0, or one of the 12 signs with a
\* confidence above 0 and at most 1; either way the score table holds all 12
\* signs, each with a score of at least 0 and at most 1
C18_ResultShape ==
  (Called /\ HasAllPoints(landmarks)) =>
    /\ classification.kind = "object"
    /\ \/ classification.sign = NULL /\ classification.confidence = DoubleZero
       \/ /\ classification.sign \in Signs
          /\ DoubleLess(DoubleZero, classification.confidence)
          /\ AtMost(classification.confidence, DoubleOne)
    /\ DOMAIN classification.allScores = Signs
    /\ \A sign \in Signs :
         /\ AtMost(DoubleZero, classification.allScores[sign])
         /\ AtMost(classification.allScores[sign], DoubleOne)

\* a hand whose wrist and middle-finger base coincide, classified as Ram: the
\* rule's score is above 1, the confidence and the table hold 1, other rules
\* score 0
C18_Witness ==
  /\ Called
  /\ HasAllPoints(landmarks)
  /\ landmarks.hand.palmSize = 0
  /\ classification.sign = "Ram"
  /\ DoubleLess(DoubleOne, RuleScores["Ram"])
  /\ classification.confidence = DoubleOne
  /\ classification.allScores["Ram"] = DoubleOne
  /\ classification.allScores["Bird"] = DoubleZero

\* the position of a sign in the canonical order
Position(sign) == CHOOSE i \in 1..Len(SignOrder) : SignOrder[i] = sign

\* the reference rule: the sign no other sign outscores, the first in canonical
\* order when several share the greatest score
Winner(scores) ==
  CHOOSE sign \in Signs :
    \A other \in Signs :
      \/ DoubleLess(scores[other], scores[sign])
      \/ scores[other] = scores[sign] /\ Position(sign) <= Position(other)

\* C19: the decision of classify is the reference rule: the winner is the sign
\* with the greatest score as the rules return it, the first of them in
\* canonical order on a tie; the result is sign null with confidence 0 exactly
\* when the winning score is below minConfidence, and otherwise the winner with
\* confidence min(1, winning score)
C19_DecisionIsReferenceRule ==
  (Called /\ HasAllPoints(landmarks)) =>
    LET scores == RuleScores
        winner == Winner(scores)
        top == scores[winner]
    IN  /\ classification.kind = "object"
        /\ classification.sign = NULL <=> DoubleLess(top, Literal(minConfidence))
        /\ classification.sign = NULL => classification.confidence = DoubleZero
        /\ classification.sign # NULL =>
             /\ classification.sign = winner
             /\ classification.confidence = DoubleMin(DoubleOne, top)

\* Ram and Dragon share the winning score and Ram, the earlier one, is returned
C19_Witness ==
  /\ Called
  /\ HasAllPoints(landmarks)
  /\ classification.sign = "Ram"
  /\ RuleScores["Dragon"] = RuleScores["Ram"]
  /\ \A sign \in Signs : AtMost(RuleScores[sign], RuleScores["Ram"])

\* C20: classify fails closed: for a missing landmark set or one with fewer than
\* LANDMARK_COUNT points it returns null, with no features and no scores
\* computed, and it never raises; with all the points it returns an object
C20_FailsClosed ==
  Called =>
    /\ classification.kind # "TypeError"
    /\ classification = NullResult
          <=> (landmarks.kind = "missing" \/ landmarks.length < LANDMARK_COUNT)

C20_Witness ==
  /\ Called
  /\ landmarks.kind = "points"
  /\ landmarks.length = LANDMARK_COUNT - 1
  /\ classification = NullResult

\* ---- Tiger and Ram ----------------------------------------------------------------
\* the features of the hand classify was called with
Features == getHandFeatures(landmarks.hand)

\* index and middle extended, ring and pinky curled
TwoFingersUp(f) ==
  f.indexExtended /\ f.middleExtended /\ f.ringCurled /\ f.pinkyCurled

\* C21: for every feature set with index and middle extended, ring and pinky
\* curled and an index-middle spread below 0.25 of the palm size, whatever the
\* thumb and the other features, classify selects Tiger
C21_TouchingIsTiger ==
  (Called /\ HasAllPoints(landmarks)
     /\ TwoFingersUp(Features) /\ RatioLess(Features.indexMiddleSpread, 25))
    => classification.sign = "Tiger"

\* C22: for every feature set with index and middle extended, ring and pinky
\* curled and an index-middle spread above 0.35 of the palm size, whatever the
\* thumb and the other features, classify selects Ram
C22_SpreadIsRam ==
  (Called /\ HasAllPoints(landmarks)
     /\ TwoFingersUp(Features) /\ RatioGreater(Features.indexMiddleSpread, 35))
    => classification.sign = "Ram"

C22_Witness ==
  /\ Called
  /\ HasAllPoints(landmarks)
  /\ TwoFingersUp(Features)
  /\ landmarks.hand.palmSize > 0
  /\ RatioGreater(Features.indexMiddleSpread, 35)
  /\ RuleScores["Dragon"] = RuleScores["Ram"]
  /\ classification.sign = "Ram"

Finite(r) == r.den > 0

\* C24: for every hand classify scored, the palm size is greater than 0 and
\* the palm-normalised ratios the rules read are finite numbers.
C24_PalmSizePositive ==
  (Called /\ HasAllPoints(landmarks)) =>
     /\ Features.palmSize > 0
     /\ Finite(Features.indexMiddleSpread)
     /\ Finite(Features.middleRingSpread)
     /\ Finite(Features.ringPinkySpread)
     /\ Finite(Features.thumbToPalm)
     /\ Finite(Features.thumbToIndex)

\* ---- Tiger against Ram ----
\* a score at or above the acceptance floor of classify
AtFloor(score) == AtMost(Literal(minConfidence), score)

\* C27: for no hand with a palm of positive size are the Tiger score and the
\* Ram score both at or above the acceptance floor of 0.45.
C27_TigerRamExclusive ==
  (Called /\ HasAllPoints(landmarks) /\ landmarks.hand.palmSize > 0)
    => ~(AtFloor(RuleScores["Tiger"]) /\ AtFloor(RuleScores["Ram"]))

\* ---- the recorded signs ----
\* C25: every step leaves currentSequence as it was, extends it by exactly one
\* sign at the end, or empties it: no step removes part of it and no recorded
\* sign is ever changed.
C25_SequenceSteps ==
  [][ \/ currentSequence' = currentSequence
      \/ /\ Len(currentSequence') = Len(currentSequence) + 1
         /\ SubSeq(currentSequence', 1, Len(currentSequence)) = currentSequence
      \/ currentSequence' = <<>> ]_vars

\* a sequence of three signs that grew by its last sign in the last step and
\* that a manual reset can now empty
C25_Witness ==
  /\ out.appended
  /\ Len(currentSequence) = 3
  /\ ENABLED (ManualReset /\ currentSequence' = <<>>)

\* ---- deferred checks outstanding ----
\* C26: at any time at most one deferred no-match check is pending.
C26_OneCheckPending == Len(timers) <= 1

\* ---- reset events ----
\* C28: a reset event is fired only by a step that discarded registered signs:
\* a step that finds no sign registered and pushes none fires no reset event,
\* whoever called resetSequence, and a step that fires one leaves no sign
\* registered. Every reset event carries the reason of its path: timeout from
\* a sample that finds the sequence expired, no-match from a deferred check,
\* manual from the manual reset, completed from a sample that pushed a sign
\* and fired the completion event before it.
C28_ResetEvents ==
  [][ /\ (currentSequence = <<>> /\ ~out'.appended) => ~HasReset(out'.events)
      /\ HasReset(out'.events) =>
            /\ currentSequence' = <<>>
            /\ Cardinality(EventsOfType(out'.events, "reset")) = 1
            /\ \A i \in EventsOfType(out'.events, "reset") :
                  LET reason == out'.events[i].reason
                  IN  CASE reason = "timeout" ->
                             Expired /\ ~out'.fired /\ (SampleAdmitted \/ SampleRejected)
                        [] reason = "no-match" -> out'.fired /\ TimerFire
                        [] reason = "manual" -> ManualReset
                        [] reason = "completed" ->
                             /\ out'.appended
                             /\ i > 1
                             /\ out'.events[i - 1].type = "complete"
                        [] OTHER -> FALSE ]_vars

\* a deferred check has run with no sign registered: it called resetSequence
\* and no event was fired
C28_Witness ==
  /\ out.fired
  /\ out.events = <<>>
  /\ currentSequence = <<>>
  /\ signHoldCount = 0
  /\ run.len > 0

\* ---- the catalog ----
\* no catalog jutsu holds the same sign twice in a row, and none is the
\* beginning of another
CatalogWellFormed ==
  /\ Len(jutsus) = 4
  /\ \A k \in 1..Len(jutsus) :
        \A i \in 1..(Len(jutsus[k].signs) - 1) :
          jutsus[k].signs[i] # jutsus[k].signs[i + 1]
  /\ \A k \in 1..Len(jutsus) : PrefixedBy(jutsus[k].signs) = {k}

\* C29: the catalog has 4 jutsus, none with two equal adjacent signs and none
\* a prefix of another, and every one of them is completable: as long as the
\* input from the initial state spells the beginning of a jutsu the hand can
\* form, another admitted sample continues it unless the last sign is older
\* than the timeout (it never is at the initial instant); no completion event is fired
\* on the way, and when the jutsu is spelled out its completion event, and no
\* other, has been fired.
C29_EveryJutsuCompletable ==
  /\ CatalogWellFormed
  /\ \A id \in feed.js :
        LET signs == jutsus[JutsuById(id)].signs
        IN  /\ (feed.n < SIGN_HOLD_FRAMES * Len(signs) /\ Range(signs) \subseteq shownSigns)
                 => /\ feed.completed = <<>>
                    /\ ~Expired => ENABLED (SampleAdmitted /\ id \in feed'.js)
            /\ feed.n = SIGN_HOLD_FRAMES * Len(signs)
                 => feed.completed = << id >>

\* chidori, whose first sign also begins waterdragon, spelled out and complete
C29_Witness ==
  /\ feed.n = SIGN_HOLD_FRAMES * 3
  /\ feed.js = {"chidori"}
  /\ feed.completed = << "chidori" >>
  /\ currentSequence = <<>>

\* ---- effect lifetime ----
\* the end timer scheduled by the latest call of trigger
OwnTimers == { t \in endTimers : t.by = triggers }

\* C30: after a trigger the effect stays active until the end timer that
\* trigger scheduled is due, and an end timer callback that deactivates an
\* effect (and stops its spawn interval) is the one the latest trigger
\* scheduled, or runs when that one is due as well.
C30_EffectLifetime ==
  [][ /\ (\E t \in OwnTimers' : t.due > effectNow') => activeEffect' # NULL
      /\ ((activeEffect # NULL \/ chidoriInterval \/ dragonInterval) /\ EffectEnd)
            => (OwnTimers' = {} \/ \A t \in OwnTimers : t.due <= effectNow) ]_vars

====
